---- MODULE Spec2Model ----
(***************************************************************************)
(* Poseidon dispatch-and-routing engine.                                   *)
(*                                                                         *)
(*   Part I   AsyncTaskDispatcher (workflows/async_dispatcher.py):         *)
(*            bounded asyncio queue, worker pool, TaskState store.         *)
(*                                                                         *)
(* asyncio is cooperative: a coroutine runs without interleaving until it  *)
(* really suspends.  Queue.get() suspends only on an empty queue,          *)
(* Queue.put() only on a full queue, Lock.acquire() only on a held lock,   *)
(* and awaiting the task callable always may suspend.  Every action below  *)
(* is one such uninterrupted run of a coroutine.                           *)
(***************************************************************************)
EXTENDS Integers, Sequences, FiniteSets, TLC

\* ------------------------------------------------------------------ bounds
MaxTasks == 3
MaxRetries == 2
MaxQueueSize == 1
DefaultConcurrency == 2
MaxStarts == 3
MaxStops == 3

Tasks == 1..MaxTasks
\* every start() that spawns creates `concurrency` new worker tasks
WorkerIds == 0..(MaxStarts * DefaultConcurrency - 1)
StopIds == 1..MaxStops

Max(a, b) == IF a >= b THEN a ELSE b

\* --------------------------------------------------------------- variables
VARIABLES
    concurrency,     \* self._concurrency
    max_queue_size,  \* maxsize of self._queue
    running,         \* self._running
    queue,           \* self._queue: envelopes and None sentinels, FIFO
    states,          \* self._states: task_id -> TaskState
    state_lock,      \* self._state_lock: NoHolder or the worker holding it
    wpc,             \* position of each _worker coroutine
    wenv,            \* local `envelope` of each worker
    wres,            \* local `result` of each worker
    sub,             \* position of each submit() call
    subenv,          \* local `envelope` of each submit() call
    calls,           \* how often each task's callable has been invoked
    submitPuts,      \* how often submit() has enqueued each task's envelope
    requeues,        \* how often a worker has decided to re-enqueue each task
    workers,         \* self._workers: the worker tasks listed, oldest first
    stp,             \* position of each stop() call
    stpk,            \* index of the `for _ in self._workers` loop of each stop()
    stpg,            \* the worker tasks each stop() handed to asyncio.gather
    stq,             \* the tasks queued ahead of the first sentinel of each stop()
    sentinels,       \* how many sentinels the stop() calls have enqueued
    late,            \* the tasks submitted while the dispatcher was stopped
    ahead,           \* per task to retry: those queued when it failed, not dequeued since
    pending,         \* per task to retry: those queued when it failed, not started since
    \* Part II, guardrails
    contracts_enabled,  \* _CONTRACTS_ENABLED
    fresh_cfg,          \* get_guardrail_config()["freshness"][module]
    null_cfg,           \* get_guardrail_config()["null_rate"][module]
    now,                \* datetime.utcnow(), in seconds
    freshness_cache,    \* SupervisorWorkflow._freshness_cache
    hist,               \* the _run_guardrails calls made so far, oldest first
    \* Part III, resolver
    enabled_flags,      \* set(get_enabled_modules()), the feature flag list
    factories,          \* AgentRegistry._factories (its keys)
    enabled,            \* AgentRegistry._enabled
    requested_module,   \* the explicit module of the request, as characters
    words,              \* the words of the request's free text
    scores,             \* the keyword score of every module on that text
    inferred,           \* what _infer_module returns for that text
    resolved,           \* what _resolve_module returned
    \* Part IV, workflow
    wf_status,          \* execute_workflow: "idle", "running", "returned", "raised"
    wf_steps,           \* len(workflow_steps)
    results,            \* the local `results` of execute_workflow
    journal,            \* per step run: what route_query did, oldest first
    twin_cache,         \* _freshness_cache of the same run with handlers that return
    log_level,          \* logger.getEffectiveLevel() of the module's logger
    workflow_run_id,    \* execute_workflow: the workflow_run_id, "None" for None
    observability_enabled, \* _observability_enabled()
    emitted,            \* the telemetry calls made so far, oldest first
    stored              \* the number of rows `execute` has written

dvars == <<concurrency, max_queue_size, running, queue, states, state_lock,
           wpc, wenv, wres, sub, subenv, calls, submitPuts, requeues>>

lvars == <<workers, stp, stpk, stpg, stq, sentinels, late, ahead, pending>>

gvars == <<contracts_enabled, fresh_cfg, null_cfg, now, freshness_cache, hist>>

rvars == <<enabled_flags, factories, enabled, requested_module, words, scores,
           inferred, resolved>>

wvars == <<wf_status, wf_steps, results, journal, twin_cache, log_level,
           workflow_run_id, observability_enabled, emitted, stored>>

vars == <<dvars, lvars, gvars, rvars, wvars>>

\* ------------------------------------------------------------------ values
NoHolder == -1
Sentinel == [task_id |-> 0, retries |-> 0, func |-> [always |-> FALSE, n |-> 0]]
NoResult == [exc |-> FALSE, val |-> 0]
None == 0

\* A task callable: it raises on every invocation (always), or raises on its
\* first n invocations and returns afterwards.  Invocation i returns the value
\* i, or raises an exception whose text is i.
Callables ==
    {[always |-> TRUE, n |-> 0]} \cup {[always |-> FALSE, n |-> k] : k \in 0..MaxRetries}

Raises(func, i) == func.always \/ i <= func.n

\* The closure _execute_async of run_workflow_async over a registry without
\* modules: execute_workflow raises RuntimeError("No agents are registered
\* in the registry.") from _default_module, and the closure re-raises it, on
\* every invocation.
ConfigurationError == [always |-> TRUE, n |-> 0]

\* The calls of update_workflow_run_status invocation i of the closure
\* _execute_async makes, func telling on which invocations execute_workflow
\* raises: "running" first, then "failed" before the exception is raised
\* again, or "completed", both with completed=True.
ExecuteAsync(func, i) ==
    <<[status |-> "running", completed |-> FALSE],
      [status |-> IF Raises(func, i) THEN "failed" ELSE "completed",
       completed |-> TRUE]>>

\* the status updates of a run whose closure was invoked k times
RECURSIVE RunStatus(_, _)
RunStatus(func, k) ==
    IF k <= 0 THEN <<>> ELSE RunStatus(func, k - 1) \o ExecuteAsync(func, k)

\* A callable that raises asyncio.CancelledError on every invocation (it
\* awaits a cancelled future, say): a BaseException that is no Exception.
Cancelled == [always |-> TRUE, n |-> -1]

\* A callable that returns, on every invocation, an exception object it
\* built (it raises nothing).
ReturnsException == [always |-> FALSE, n |-> -1]

\* `isinstance(result, Exception)`, result being the exception caught from
\* invocation i or the value it returned
IsException(func, i) == Raises(func, i) \/ func = ReturnsException

\* TaskState(max_retries=envelope.retries, metadata=metadata)
NewTaskState(retries) ==
    [status |-> "queued", result |-> None, error |-> None, attempts |-> 0,
     max_retries |-> retries, started_at |-> FALSE, finished_at |-> FALSE]

\* _TaskEnvelope(task_id, func, args, kwargs, retries=max(0, retries), metadata)
NewEnvelope(t, retries, func) ==
    [task_id |-> t, retries |-> Max(0, retries), func |-> func]

\* asyncio.Queue.full() for maxsize > 0, negated: put() goes through at once
CanPut_unbounded(q) == TRUE

CanPut(q) == Len(q) < max_queue_size

\* the task ids of the envelopes in q
QueuedTasks(q) == {q[i].task_id : i \in {j \in 1..Len(q) : q[j] # Sentinel}}

\* asyncio.Queue.get() hands out the oldest entry and removes it
Dequeue_peek(q) == q

Dequeue(q) == Tail(q)

\* `await self._queue.put(envelope)` of the retry: the envelope goes to the tail
Requeue_front(q, env) == <<env>> \o q

Requeue(q, env) == Append(q, env)

\* worker, first locked section: status running, started_at, attempts += 1
MarkRunning_reset(S, env) ==
    IF env.task_id \in DOMAIN S
    THEN [S EXCEPT ![env.task_id].status = "running",
                   ![env.task_id].started_at = TRUE,
                   ![env.task_id].attempts = 1]
    ELSE S

MarkRunning(S, env) ==
    IF env.task_id \in DOMAIN S
    THEN [S EXCEPT ![env.task_id].status = "running",
                   ![env.task_id].started_at = TRUE,
                   ![env.task_id].attempts = @ + 1]
    ELSE S

\* `if state.attempts <= envelope.retries`
ShouldRetry_strict(attempts, retries) == attempts < retries

ShouldRetry(attempts, retries) == attempts <= retries

\* worker, second locked section: does this outcome re-enqueue the envelope?
NeedsRequeue(S, env, res) ==
    /\ env.task_id \in DOMAIN S
    /\ res.exc
    /\ ShouldRetry(S[env.task_id].attempts, env.retries)

\* worker, second locked section: the TaskState after the outcome is recorded
RecordOutcome_queued(S, env, res) ==
    IF env.task_id \notin DOMAIN S THEN S
    ELSE IF res.exc
    THEN [S EXCEPT ![env.task_id].finished_at = TRUE,
                   ![env.task_id].error = res.val,
                   ![env.task_id].status =
                       IF ShouldRetry(S[env.task_id].attempts, env.retries)
                       THEN "queued" ELSE "failed"]
    ELSE [S EXCEPT ![env.task_id].finished_at = TRUE,
                   ![env.task_id].status = "completed",
                   ![env.task_id].result = res.val]

RecordOutcome(S, env, res) ==
    IF env.task_id \notin DOMAIN S THEN S
    ELSE IF res.exc
    THEN [S EXCEPT ![env.task_id].finished_at = TRUE,
                   ![env.task_id].error = res.val,
                   ![env.task_id].status =
                       IF ShouldRetry(S[env.task_id].attempts, env.retries)
                       THEN "retrying" ELSE "failed"]
    ELSE [S EXCEPT ![env.task_id].finished_at = TRUE,
                   ![env.task_id].status = "completed",
                   ![env.task_id].result = res.val]

\* `while self._running:` at the top of the worker loop
LoopTop == IF running THEN "get" ELSE "exited"

\* -------------------------------------------------------------------- Init
\* no worker task listed, no stop() or start() call made yet
LifecycleInit ==
    /\ workers = <<>>
    /\ stp = [s \in StopIds |-> "idle"]
    /\ stpk = [s \in StopIds |-> 0]
    /\ stpg = [s \in StopIds |-> {}]
    /\ stq = [s \in StopIds |-> {}]
    /\ sentinels = 0
    /\ late = {}
    /\ ahead = [t \in Tasks |-> {}]
    /\ pending = [t \in Tasks |-> {}]

\* everything but the queue's maxsize
DispatcherFresh ==
    /\ LifecycleInit
    /\ concurrency \in {Max(1, c) : c \in 0..DefaultConcurrency}
    /\ running = FALSE
    /\ queue = <<>>
    /\ states = <<>>
    /\ state_lock = NoHolder
    /\ wpc = [w \in WorkerIds |-> "none"]
    /\ wenv = [w \in WorkerIds |-> Sentinel]
    /\ wres = [w \in WorkerIds |-> NoResult]
    /\ sub = [t \in Tasks |-> "idle"]
    /\ subenv = [t \in Tasks |-> Sentinel]
    /\ calls = [t \in Tasks |-> 0]
    /\ submitPuts = [t \in Tasks |-> 0]
    /\ requeues = [t \in Tasks |-> 0]

DispatcherInit ==
    /\ DispatcherFresh
    /\ max_queue_size = MaxQueueSize

\* ----------------------------------------------------------------- start()
\* the worker tasks created so far; a new task gets the next free id
Spawned == {w \in WorkerIds : wpc[w] # "none"}

NewWorkers == {w \in WorkerIds : Cardinality(Spawned) <= w
                                  /\ w < Cardinality(Spawned) + concurrency}

\* the ids of S in increasing order
RECURSIVE Ascending(_)
Ascending(S) ==
    IF S = {} THEN <<>>
    ELSE LET w == CHOOSE x \in S : \A y \in S : x <= y
         IN <<w>> \o Ascending(S \ {w})

\* start() returns at once on a running dispatcher; otherwise `concurrency`
\* worker tasks are created and appended to self._workers, none of which has
\* run when start() returns
start ==
    /\ ~running
    /\ Cardinality(Spawned) + concurrency <= MaxStarts * concurrency
    /\ running' = TRUE
    /\ wpc' = [w \in WorkerIds |-> IF w \in NewWorkers THEN "start" ELSE wpc[w]]
    /\ workers' = workers \o Ascending(NewWorkers)
    /\ UNCHANGED <<concurrency, max_queue_size, queue, states, state_lock,
                   wenv, wres, sub, subenv, calls, submitPuts, requeues>>
    /\ UNCHANGED <<stp, stpk, stpg, stq, sentinels, late, ahead, pending>>
    /\ UNCHANGED <<gvars, rvars, wvars>>

\* ---------------------------------------------------------------- submit()
\* from `await self._queue.put(envelope)` on: enqueue, or stay suspended
SubmitPut(t, env) ==
    IF CanPut(queue)
    THEN /\ queue' = Append(queue, env)
         /\ sub' = [sub EXCEPT ![t] = "returned"]
         /\ submitPuts' = [submitPuts EXCEPT ![t] = @ + 1]
    ELSE /\ sub' = [sub EXCEPT ![t] = "put"]
         /\ UNCHANGED <<queue, submitPuts>>

\* from `async with self._state_lock` on
SubmitLocked(t, env) ==
    /\ states' = (t :> NewTaskState(env.retries)) @@ states
    /\ SubmitPut(t, env)

\* the retries granted to the submit() calls made so far
RECURSIVE SumRetries(_)
SumRetries(D) ==
    IF D = {} THEN 0
    ELSE LET t == CHOOSE x \in D : TRUE
         IN subenv[t].retries + SumRetries(D \ {t})

\* the dispatcher was started, a stop() call has completed since, and it has
\* not been started again
Stopped == ~running /\ Spawned # {}

\* Task ids are fresh uuids; calls are numbered in the order they are made.
\* MaxRetries bounds the retries of one task and of all tasks together; a
\* callable that raises more than `retries` times before it returns behaves,
\* in the retries + 1 attempts it gets, like the one that always raises.
submit(t, retries, func) ==
    /\ sub[t] = "idle"
    /\ \A u \in Tasks : u < t => sub[u] # "idle"
    /\ func.n <= Max(0, retries)
    /\ SumRetries(Tasks) + Max(0, retries) <= MaxRetries
    /\ subenv' = [subenv EXCEPT ![t] = NewEnvelope(t, retries, func)]
    /\ IF state_lock = NoHolder
       THEN SubmitLocked(t, NewEnvelope(t, retries, func))
       ELSE /\ sub' = [sub EXCEPT ![t] = "lock"]
            /\ UNCHANGED <<queue, states, submitPuts>>
    /\ late' = IF Stopped THEN late \cup {t} ELSE late
    /\ UNCHANGED <<concurrency, max_queue_size, running, state_lock,
                   wpc, wenv, wres, calls, requeues>>
    /\ UNCHANGED <<workers, stp, stpk, stpg, stq, sentinels, ahead, pending>>
    /\ UNCHANGED <<gvars, rvars, wvars>>

\* a submit() suspended on the state lock acquires it
submit_lock(t) ==
    /\ sub[t] = "lock"
    /\ state_lock = NoHolder
    /\ SubmitLocked(t, subenv[t])
    /\ UNCHANGED <<concurrency, max_queue_size, running, state_lock,
                   wpc, wenv, wres, subenv, calls, requeues>>
    /\ UNCHANGED lvars
    /\ UNCHANGED <<gvars, rvars, wvars>>

\* a submit() suspended in queue.put() finds a free slot
submit_put(t) ==
    /\ sub[t] = "put"
    /\ CanPut(queue)
    /\ SubmitPut(t, subenv[t])
    /\ UNCHANGED <<concurrency, max_queue_size, running, states, state_lock,
                   wpc, wenv, wres, subenv, calls, requeues>>
    /\ UNCHANGED lvars
    /\ UNCHANGED <<gvars, rvars, wvars>>

\* ---------------------------------------------------------------- _worker()
\* A stop() whose gather() ended before worker w was created is ahead of w in
\* the event loop's FIFO ready queue: it was woken by the exit of the workers
\* it awaited, which is what let the start() that created w happen at all.
Ahead(w) == \E s \in StopIds : stp[s] = "gather" /\ w \notin stpg[s]

\* task u has been dequeued, or has started an attempt: it leaves every set
Without(F, u) == [t \in Tasks |-> F[t] \ {u}]

\* the first run of a worker task that finds `self._running` false
worker_begin(w) ==
    /\ wpc[w] = "start"
    /\ ~Ahead(w)
    /\ ~running
    /\ wpc' = [wpc EXCEPT ![w] = "exited"]
    /\ UNCHANGED <<concurrency, max_queue_size, running, queue, states,
                   state_lock, wenv, wres, sub, subenv, calls, submitPuts,
                   requeues>>
    /\ UNCHANGED lvars
    /\ UNCHANGED <<gvars, rvars, wvars>>

\* `envelope = await self._queue.get()`, then the first locked section; a
\* worker task on its first run passes `while self._running:` before it
worker_get(w) ==
    /\ \/ wpc[w] = "get"
       \/ wpc[w] = "start" /\ running /\ ~Ahead(w)
    /\ queue # <<>>
    /\ queue' = Dequeue(queue)
    /\ IF Head(queue) = Sentinel
       THEN /\ wpc' = [wpc EXCEPT ![w] = "exited"]
            /\ UNCHANGED <<states, wenv, ahead, pending>>
       ELSE /\ wenv' = [wenv EXCEPT ![w] = Head(queue)]
            /\ ahead' = Without(ahead, Head(queue).task_id)
            /\ IF state_lock = NoHolder
               THEN /\ states' = MarkRunning(states, Head(queue))
                    /\ pending' = Without(pending, Head(queue).task_id)
                    /\ wpc' = [wpc EXCEPT ![w] = "exec"]
               ELSE /\ wpc' = [wpc EXCEPT ![w] = "lock1"]
                    /\ UNCHANGED <<states, pending>>
    /\ UNCHANGED <<concurrency, max_queue_size, running, state_lock,
                   wres, sub, subenv, calls, submitPuts, requeues>>
    /\ UNCHANGED <<workers, stp, stpk, stpg, stq, sentinels, late>>
    /\ UNCHANGED <<gvars, rvars, wvars>>

\* back at the top of the loop the locals `envelope` and `result` are dead
WorkerLoops(w) ==
    /\ wpc' = [wpc EXCEPT ![w] = LoopTop]
    /\ wenv' = [wenv EXCEPT ![w] = Sentinel]
    /\ wres' = [wres EXCEPT ![w] = NoResult]

\* the second locked section, lines 138-160, entered with the lock free
WorkerRecord(w, env, res) ==
    /\ states' = RecordOutcome(states, env, res)
    /\ requeues' = IF NeedsRequeue(states, env, res)
                   THEN [requeues EXCEPT ![env.task_id] = @ + 1]
                   ELSE requeues
    /\ IF NeedsRequeue(states, env, res)
       THEN IF CanPut(queue)
            THEN /\ queue' = Requeue(queue, env)
                 /\ WorkerLoops(w)
                 /\ UNCHANGED state_lock
            ELSE \* suspended in `await self._queue.put(envelope)`, lock held
                 /\ wpc' = [wpc EXCEPT ![w] = "put"]
                 /\ wres' = [wres EXCEPT ![w] = res]
                 /\ state_lock' = w
                 /\ UNCHANGED <<queue, wenv>>
       ELSE /\ WorkerLoops(w)
            /\ UNCHANGED <<queue, state_lock>>

\* the tasks in the queue when an attempt fails that will be retried
QueuedAtFailure(env, res) ==
    IF NeedsRequeue(states, env, res) THEN QueuedTasks(queue) ELSE {}

\* `result = await self._execute(envelope)`: the callable is invoked and
\* returns or raises; then the second locked section if the lock is free
worker_execute(w) ==
    /\ wpc[w] = "exec"
    /\ wenv[w].func # Cancelled
    /\ LET t == wenv[w].task_id
           i == calls[t] + 1
           res == [exc |-> IsException(wenv[w].func, i), val |-> i]
       IN /\ calls' = [calls EXCEPT ![t] = i]
          /\ ahead' = [ahead EXCEPT ![t] = QueuedAtFailure(wenv[w], res)]
          /\ pending' = [pending EXCEPT ![t] = QueuedAtFailure(wenv[w], res)]
          /\ IF state_lock = NoHolder
             THEN WorkerRecord(w, wenv[w], res)
             ELSE /\ wpc' = [wpc EXCEPT ![w] = "lock2"]
                  /\ wres' = [wres EXCEPT ![w] = res]
                  /\ UNCHANGED <<queue, states, state_lock, wenv, requeues>>
    /\ UNCHANGED <<concurrency, max_queue_size, running, sub, subenv,
                   submitPuts>>
    /\ UNCHANGED <<workers, stp, stpk, stpg, stq, sentinels, late>>
    /\ UNCHANGED <<gvars, rvars, wvars>>

\* `result = await self._execute(envelope)` raises CancelledError, which
\* `except Exception` does not catch: it leaves _worker and the worker task
\* ends, cancelled
worker_cancelled(w) ==
    /\ wpc[w] = "exec"
    /\ wenv[w].func = Cancelled
    /\ calls' = [calls EXCEPT ![wenv[w].task_id] = @ + 1]
    /\ wpc' = [wpc EXCEPT ![w] = "cancelled"]
    /\ UNCHANGED <<concurrency, max_queue_size, running, queue, states,
                   state_lock, wenv, wres, sub, subenv, submitPuts, requeues>>
    /\ UNCHANGED lvars
    /\ UNCHANGED <<gvars, rvars, wvars>>

\* A worker suspended in `async with self._state_lock` acquires the lock and
\* runs the section it was about to enter.  With at most two workers only the
\* first section is ever entered this way: the lock is held across a
\* suspension only by a worker inside put() on a full queue, and a second
\* worker that waits for the lock before its second section is the only other
\* consumer of the queue, so the lock is never released again.
worker_lock(w) ==
    /\ wpc[w] \in {"lock1", "lock2"}
    /\ state_lock = NoHolder
    /\ IF wpc[w] = "lock1"
       THEN /\ states' = MarkRunning(states, wenv[w])
            /\ pending' = Without(pending, wenv[w].task_id)
            /\ wpc' = [wpc EXCEPT ![w] = "exec"]
            /\ UNCHANGED <<queue, state_lock, wenv, wres, requeues>>
       ELSE /\ WorkerRecord(w, wenv[w], wres[w])
            /\ UNCHANGED pending
    /\ UNCHANGED <<concurrency, max_queue_size, running, sub, subenv, calls,
                   submitPuts>>
    /\ UNCHANGED <<workers, stp, stpk, stpg, stq, sentinels, late, ahead>>
    /\ UNCHANGED <<gvars, rvars, wvars>>

\* a worker suspended in queue.put() inside the locked section finds a slot
worker_put(w) ==
    /\ wpc[w] = "put"
    /\ CanPut(queue)
    /\ queue' = Requeue(queue, wenv[w])
    /\ state_lock' = NoHolder
    /\ WorkerLoops(w)
    /\ UNCHANGED <<concurrency, max_queue_size, running, states, sub, subenv,
                   calls, submitPuts, requeues>>
    /\ UNCHANGED lvars
    /\ UNCHANGED <<gvars, rvars, wvars>>

\* ------------------------------------------------------------------ stop()
\* the sentinels a stop() at loop index k enqueues before the queue is full
Puts(k) ==
    LET todo == Len(workers) - k
        free == max_queue_size - Len(queue)
    IN IF todo <= 0 THEN 0 ELSE IF todo <= free THEN todo ELSE Max(0, free)

\* asyncio.gather(*tasks) suspends its caller until all of them are done
AllDone_nowait(S) == TRUE

AllDone(S) == \A w \in S : wpc[w] = "exited"

\* `self._workers.clear()`, `self._running = False`
StopReturns(s) ==
    /\ workers' = <<>>
    /\ running' = FALSE
    /\ stp' = [stp EXCEPT ![s] = "returned"]

\* `for _ in self._workers: await self._queue.put(None)` from index k on, up
\* to the next suspension: in put() on a full queue, or in gather(); gather()
\* of no task at all is done at once
StopLoop(s, k) ==
    /\ queue' = queue \o [i \in 1..Puts(k) |-> Sentinel]
    /\ sentinels' = sentinels + Puts(k)
    /\ stpk' = [stpk EXCEPT ![s] = k + Puts(k)]
    /\ stq' = IF k = 0 /\ Puts(k) > 0 /\ \A i \in 1..Len(queue) : queue[i] # Sentinel
              THEN [stq EXCEPT ![s] = QueuedTasks(queue)]
              ELSE stq
    /\ IF k + Puts(k) < Len(workers)
       THEN /\ stp' = [stp EXCEPT ![s] = "put"]
            /\ UNCHANGED <<workers, running, stpg>>
       ELSE IF workers = <<>>
       THEN /\ StopReturns(s)
            /\ UNCHANGED stpg
       ELSE /\ stp' = [stp EXCEPT ![s] = "gather"]
            /\ stpg' = [stpg EXCEPT ![s] = {workers[i] : i \in 1..Len(workers)}]
            /\ UNCHANGED <<workers, running>>

\* stop() calls are numbered in the order they are made
stop(s) ==
    /\ stp[s] = "idle"
    /\ \A u \in StopIds : u < s => stp[u] # "idle"
    /\ IF ~running
       THEN /\ stp' = [stp EXCEPT ![s] = "returned"]
            /\ UNCHANGED <<running, queue, workers, stpk, stpg, stq, sentinels>>
       ELSE StopLoop(s, 0)
    /\ UNCHANGED <<concurrency, max_queue_size, states, state_lock, wpc, wenv,
                   wres, sub, subenv, calls, submitPuts, requeues>>
    /\ UNCHANGED <<late, ahead, pending>>
    /\ UNCHANGED <<gvars, rvars, wvars>>

\* a stop() suspended in queue.put(None) finds a free slot
stop_put(s) ==
    /\ stp[s] = "put"
    /\ CanPut(queue)
    /\ StopLoop(s, stpk[s])
    /\ UNCHANGED <<concurrency, max_queue_size, states, state_lock, wpc, wenv,
                   wres, sub, subenv, calls, submitPuts, requeues>>
    /\ UNCHANGED <<late, ahead, pending>>
    /\ UNCHANGED <<gvars, rvars, wvars>>

\* the worker tasks handed to gather() are all done: stop() clears the list
\* and the flag and returns
stop_gather(s) ==
    /\ stp[s] = "gather"
    /\ AllDone(stpg[s])
    /\ StopReturns(s)
    /\ UNCHANGED <<concurrency, max_queue_size, queue, states, state_lock, wpc,
                   wenv, wres, sub, subenv, calls, submitPuts, requeues>>
    /\ UNCHANGED <<stpk, stpg, stq, sentinels, late, ahead, pending>>
    /\ UNCHANGED <<gvars, rvars, wvars>>

(***************************************************************************)
(* Part II  Guardrail engine (workflows/hierarchical_graph.py):            *)
(*          _run_guardrails = freshness guardrail, then null-rate          *)
(*          guardrail, behind the _CONTRACTS_ENABLED flag.                 *)
(*                                                                         *)
(* Time is in whole seconds.  Null rates and thresholds are in units of    *)
(* 0.05 (threshold 0.1 is 2, rate 0.15 is 3, rate 0.05 is 1).  Every       *)
(* module with guardrails carries the same configuration entry.            *)
(***************************************************************************)
MaxTime == 3
MaxTTL == 2
MaxRate == 3
MaxChecks == 2

DefaultTtlSeconds == 300

GModules == {"sales", "logistics"}

\* --- configuration entries
NoCfg == [present |-> FALSE, complete |-> FALSE, has_ttl |-> FALSE, ttl_seconds |-> 0]

\* guardrails["freshness"][module]: table and timestamp_column given or not,
\* ttl_seconds given or not
FreshCfgs ==
    {NoCfg}
    \cup {[present |-> TRUE, complete |-> c, has_ttl |-> FALSE, ttl_seconds |-> 0] :
             c \in BOOLEAN}
    \cup {[present |-> TRUE, complete |-> TRUE, has_ttl |-> TRUE, ttl_seconds |-> s] :
             s \in 1..MaxTTL}

\* one entry of guardrails["null_rate"][module]: table, column and
\* max_null_rate all given (complete) or not
IncompleteCheck == [complete |-> FALSE, max_null_rate |-> 0]
CheckCfgs ==
    {IncompleteCheck} \cup {[complete |-> TRUE, max_null_rate |-> t] : t \in 0..MaxRate}

\* guardrails["null_rate"][module]: absent, one entry (a dict), or a list
NullCfgs ==
    {<<>>} \cup {<<c>> : c \in CheckCfgs} \cup {<<IncompleteCheck, c>> : c \in CheckCfgs}

\* --- what the predicates return
\* check_table_freshness: {"error": str(exc)}, or latest_timestamp null / set
FreshnessOutcomes == {"error", "no_timestamp", "timestamp"}

\* json.loads(raw) of the freshness tool
FreshnessResult(o) ==
    [has_error_key |-> o = "error", error |-> o = "error", latest_timestamp |-> o = "timestamp"]

\* check_null_rate: {"error": ...}, or null_rate null (no rows) / a ratio
NullRateOutcomes ==
    {[kind |-> "error", rate |-> 0], [kind |-> "no_rate", rate |-> 0]}
    \cup {[kind |-> "rate", rate |-> r] : r \in 0..MaxRate}

NoEntry == [present |-> FALSE, cached_at |-> 0, result |-> FreshnessResult("timestamp")]

\* `int(config.get("ttl_seconds", 300))`
TtlSeconds(cfg) == IF cfg.has_ttl THEN cfg.ttl_seconds ELSE DefaultTtlSeconds

\* `datetime.utcnow() - cached_at < timedelta(seconds=ttl_seconds)`
CacheFresh(entry, t, cfg) == entry.present /\ t - entry.cached_at < TtlSeconds(cfg)

\* verdict on a cache hit: `"error" in cached_result` fails, anything else passes
CachedVerdict(result) == ~result.has_error_key

\* verdict of a fresh evaluation: result.get("error") truthy fails, then
\* latest_timestamp None fails
EvaluatedVerdict(result) == ~result.error /\ result.latest_timestamp

\* _run_freshness_guardrail(module, guardrails): the verdict, whether the
\* cache answered, whether the predicate was invoked, the cache entry after
FreshnessGuardrail(cfg, entry, t, o) ==
    IF ~cfg.present
    THEN [ok |-> TRUE, hit |-> FALSE, invoked |-> FALSE, entry |-> entry]
    ELSE IF CacheFresh(entry, t, cfg)
    THEN [ok |-> CachedVerdict(entry.result), hit |-> TRUE, invoked |-> FALSE,
          entry |-> entry]
    ELSE IF ~cfg.complete
    THEN [ok |-> TRUE, hit |-> FALSE, invoked |-> FALSE, entry |-> entry]
    ELSE [ok |-> EvaluatedVerdict(FreshnessResult(o)), hit |-> FALSE, invoked |-> TRUE,
          entry |-> [present |-> TRUE, cached_at |-> t, result |-> FreshnessResult(o)]]

\* `if rate_value > threshold`
Exceeds_orEqual(rate, threshold) == rate >= threshold

Exceeds(rate, threshold) == rate > threshold

\* one complete entry fails on a tool error, a missing rate, a rate over max
CheckFails(check, o) ==
    \/ o.kind = "error"
    \/ o.kind = "no_rate"
    \/ o.kind = "rate" /\ Exceeds(o.rate, check.max_null_rate)

\* _run_null_rate_guardrail(module, guardrails): the loop over the entries
\* from entry i on; outs[i] is what the predicate returns for entry i
RECURSIVE NullRateGuardrail(_, _, _)
NullRateGuardrail(checks, outs, i) ==
    IF i > Len(checks) THEN [ok |-> TRUE, invoked |-> 0]
    ELSE IF ~checks[i].complete THEN NullRateGuardrail(checks, outs, i + 1)
    ELSE IF CheckFails(checks[i], outs[i]) THEN [ok |-> FALSE, invoked |-> 1]
    ELSE [ok |-> NullRateGuardrail(checks, outs, i + 1).ok,
          invoked |-> NullRateGuardrail(checks, outs, i + 1).invoked + 1]

\* _run_guardrails(module), called at time t: what the call returned (ok),
\* what each guardrail did, and the cache entry it leaves
RunGuardrails(m, t, fo, nouts) ==
    LET f == FreshnessGuardrail(fresh_cfg, freshness_cache[m], t, fo)
        n == NullRateGuardrail(null_cfg, nouts, 1)
    IN IF ~contracts_enabled
       THEN [module |-> m, at |-> t, ok |-> TRUE, fresh_ok |-> TRUE,
             fresh_hit |-> FALSE, fresh_calls |-> 0, null_ran |-> FALSE,
             null_calls |-> 0, null_outs |-> <<>>, entry |-> freshness_cache[m]]
       ELSE IF ~f.ok
       THEN [module |-> m, at |-> t, ok |-> FALSE, fresh_ok |-> FALSE,
             fresh_hit |-> f.hit, fresh_calls |-> IF f.invoked THEN 1 ELSE 0,
             null_ran |-> FALSE, null_calls |-> 0, null_outs |-> <<>>, entry |-> f.entry]
       ELSE [module |-> m, at |-> t, ok |-> n.ok, fresh_ok |-> TRUE,
             fresh_hit |-> f.hit, fresh_calls |-> IF f.invoked THEN 1 ELSE 0,
             null_ran |-> TRUE, null_calls |-> n.invoked,
             null_outs |-> nouts, entry |-> f.entry]

\* the configurations the caching is examined under: the null-rate entry is
\* absent or one complete entry
GuardInit ==
    /\ contracts_enabled \in BOOLEAN
    /\ fresh_cfg \in FreshCfgs
    /\ null_cfg \in {<<>>} \cup {<<c>> : c \in CheckCfgs \ {IncompleteCheck}}
    /\ now = 0
    /\ freshness_cache = [m \in GModules |-> NoEntry]
    /\ hist = <<>>

\* the configurations the null-rate guardrail is examined under: every shape
\* of its entry, behind a freshness guardrail that is absent or configured
NullInit ==
    /\ contracts_enabled \in BOOLEAN
    /\ fresh_cfg \in {c \in FreshCfgs : ~c.has_ttl /\ c.present = c.complete}
    /\ null_cfg \in NullCfgs
    /\ now = 0
    /\ freshness_cache = [m \in GModules |-> NoEntry]
    /\ hist = <<>>

GuardIdle ==
    /\ contracts_enabled = FALSE
    /\ fresh_cfg = NoCfg
    /\ null_cfg = <<>>
    /\ now = 0
    /\ freshness_cache = [m \in GModules |-> NoEntry]
    /\ hist = <<>>

DispatcherIdle ==
    /\ LifecycleInit
    /\ concurrency = 1
    /\ max_queue_size = MaxQueueSize
    /\ running = FALSE
    /\ queue = <<>>
    /\ states = <<>>
    /\ state_lock = NoHolder
    /\ wpc = [w \in WorkerIds |-> "none"]
    /\ wenv = [w \in WorkerIds |-> Sentinel]
    /\ wres = [w \in WorkerIds |-> NoResult]
    /\ sub = [t \in Tasks |-> "idle"]
    /\ subenv = [t \in Tasks |-> Sentinel]
    /\ calls = [t \in Tasks |-> 0]
    /\ submitPuts = [t \in Tasks |-> 0]
    /\ requeues = [t \in Tasks |-> 0]

\* a second passes
tick ==
    /\ now < MaxTime
    /\ now' = now + 1
    /\ UNCHANGED <<contracts_enabled, fresh_cfg, null_cfg, freshness_cache, hist>>
    /\ UNCHANGED <<dvars, lvars, rvars, wvars>>

\* what a _run_guardrails call is remembered by
CallRecord(r) ==
    [module |-> r.module, at |-> r.at, ok |-> r.ok, fresh_ok |-> r.fresh_ok,
     fresh_hit |-> r.fresh_hit, fresh_calls |-> r.fresh_calls,
     null_ran |-> r.null_ran, null_calls |-> r.null_calls, null_outs |-> r.null_outs]

\* route_query calls _run_guardrails(module); the predicates answer fo, nouts
check(m, fo, nouts) ==
    /\ Len(hist) < MaxChecks
    /\ freshness_cache' =
           [freshness_cache EXCEPT ![m] = RunGuardrails(m, now, fo, nouts).entry]
    /\ hist' = Append(hist, CallRecord(RunGuardrails(m, now, fo, nouts)))
    /\ UNCHANGED <<contracts_enabled, fresh_cfg, null_cfg, now>>
    /\ UNCHANGED <<dvars, lvars, rvars, wvars>>

\* the first _run_guardrails call of a process
check_once(m, fo, nouts) ==
    /\ hist = <<>>
    /\ check(m, fo, nouts)

(***************************************************************************)
(* Part III  Module resolver (workflows/hierarchical_graph.py) over the    *)
(*           agent registry (agents/registry.py).                          *)
(*                                                                         *)
(* Texts are sequences of characters, so that lower(), strip(), str.count  *)
(* and sorted() are computed as Python computes them.  Module names are    *)
(* strings; SPELLING gives their characters.                               *)
(***************************************************************************)
MaxWords == 2

\* the keys of _AGENT_PATHS
AGENT_PATHS == {"sales", "purchasing", "logistics", "manufacturing", "accounting", "inference", "communications"}

\* the keys of _MODULE_HINTS in insertion order
HINT_ORDER == <<"sales", "purchasing", "logistics", "manufacturing", "accounting", "communications", "inference">>

SPELLING ==
    [sales |-> <<"s", "a", "l", "e", "s">>,
     purchasing |-> <<"p", "u", "r", "c", "h", "a", "s", "i", "n", "g">>,
     logistics |-> <<"l", "o", "g", "i", "s", "t", "i", "c", "s">>,
     manufacturing |-> <<"m", "a", "n", "u", "f", "a", "c", "t", "u", "r", "i", "n", "g">>,
     accounting |-> <<"a", "c", "c", "o", "u", "n", "t", "i", "n", "g">>,
     inference |-> <<"i", "n", "f", "e", "r", "e", "n", "c", "e">>,
     communications |-> <<"c", "o", "m", "m", "u", "n", "i", "c", "a", "t", "i", "o", "n", "s">>]

\* _MODULE_HINTS
MODULE_HINTS ==
    [sales |->
        <<<<"s", "a", "l", "e">>,
          <<"r", "e", "v", "e", "n", "u", "e">>,
          <<"c", "u", "s", "t", "o", "m", "e", "r">>,
          <<"u", "p", "s", "e", "l", "l">>,
          <<"p", "i", "p", "e", "l", "i", "n", "e">>,
          <<"q", "u", "o", "t", "e">>,
          <<"m", "a", "r", "g", "i", "n">>,
          <<"o", "r", "d", "e", "r">>>>,
     purchasing |->
        <<<<"p", "u", "r", "c", "h", "a", "s", "e">>,
          <<"s", "u", "p", "p", "l", "i", "e", "r">>,
          <<"p", "r", "o", "c", "u", "r", "e">>,
          <<"p", "o">>,
          <<"v", "e", "n", "d", "o", "r">>,
          <<"s", "o", "u", "r", "c", "i", "n", "g">>,
          <<"b", "u", "y">>>>,
     logistics |->
        <<<<"i", "n", "v", "e", "n", "t", "o", "r", "y">>,
          <<"l", "o", "g", "i", "s", "t", "i", "c">>,
          <<"s", "t", "o", "c", "k">>,
          <<"w", "a", "r", "e", "h", "o", "u", "s", "e">>,
          <<"s", "h", "i", "p", "p", "i", "n", "g">>,
          <<"d", "e", "l", "i", "v", "e", "r", "y">>,
          <<"f", "u", "l", "f", "i", "l", "l", "m", "e", "n", "t">>,
          <<"t", "r", "a", "n", "s", "p", "o", "r", "t">>>>,
     manufacturing |->
        <<<<"p", "r", "o", "d", "u", "c", "t", "i", "o", "n">>,
          <<"m", "a", "n", "u", "f", "a", "c", "t", "u", "r">>,
          <<"b", "o", "m">>,
          <<"w", "o", "r", "k", " ", "o", "r", "d", "e", "r">>,
          <<"a", "s", "s", "e", "m", "b", "l", "y">>,
          <<"f", "a", "c", "t", "o", "r", "y">>,
          <<"l", "i", "n", "e">>>>,
     accounting |->
        <<<<"i", "n", "v", "o", "i", "c", "e">>,
          <<"j", "o", "u", "r", "n", "a", "l">>,
          <<"l", "e", "d", "g", "e", "r">>,
          <<"a", "p", " ">>,
          <<"a", "r", " ">>,
          <<"e", "x", "p", "e", "n", "s", "e">>,
          <<"f", "i", "n", "a", "n", "c", "i", "a", "l">>,
          <<"r", "e", "c", "o", "n", "c", "i", "l", "e">>>>,
     communications |->
        <<<<"e", "m", "a", "i", "l">>,
          <<"n", "o", "t", "i", "f", "y">>,
          <<"e", "s", "c", "a", "l", "a", "t", "e">>,
          <<"m", "e", "s", "s", "a", "g", "e">>,
          <<"a", "l", "e", "r", "t">>,
          <<"c", "o", "n", "t", "a", "c", "t">>,
          <<"o", "u", "t", "r", "e", "a", "c", "h">>>>,
     inference |->
        <<<<"r", "e", "c", "o", "m", "m", "e", "n", "d">>,
          <<"i", "n", "f", "e", "r", "e", "n", "c", "e">>,
          <<"p", "r", "e", "d", "i", "c", "t">>,
          <<"s", "c", "e", "n", "a", "r", "i", "o">>,
          <<"f", "o", "r", "e", "c", "a", "s", "t">>,
          <<"r", "i", "s", "k">>,
          <<"o", "p", "p", "o", "r", "t", "u", "n", "i", "t", "y">>>>]

UPPERCASE == <<"A", "B", "C", "D", "E", "F", "G", "H", "I", "J", "K", "L", "M", "N", "O", "P", "Q", "R", "S", "T", "U", "V", "W", "X", "Y", "Z">>

LOWERCASE == <<"a", "b", "c", "d", "e", "f", "g", "h", "i", "j", "k", "l", "m", "n", "o", "p", "q", "r", "s", "t", "u", "v", "w", "x", "y", "z">>

\* the words free texts are built from: the logistics keywords, a
\* capitalised sales keyword and a word that is no keyword
Vocabulary ==
    {<<"i", "n", "v", "e", "n", "t", "o", "r", "y">>,
     <<"l", "o", "g", "i", "s", "t", "i", "c">>,
     <<"s", "t", "o", "c", "k">>,
     <<"w", "a", "r", "e", "h", "o", "u", "s", "e">>,
     <<"s", "h", "i", "p", "p", "i", "n", "g">>,
     <<"d", "e", "l", "i", "v", "e", "r", "y">>,
     <<"f", "u", "l", "f", "i", "l", "l", "m", "e", "n", "t">>,
     <<"t", "r", "a", "n", "s", "p", "o", "r", "t">>,
     <<"S", "a", "l", "e">>,
     <<"h", "e", "l", "l", "o">>}

\* the explicit modules a request may name: none, registered names (one
\* padded and capitalised) and an unregistered name
RequestedModules ==
    {<<>>,
     <<" ", "L", "o", "g", "i", "s", "t", "i", "c", "s", " ">>,
     <<"l", "o", "g", "i", "s", "t", "i", "c", "s">>,
     <<"s", "a", "l", "e", "s">>,
     <<"b", "o", "g", "u", "s">>}

\* the feature flags and environments the registry is built under:
\* POSEIDON_DISABLE_AGENTS set or not, and the enabled_modules flag list
RegistryConfigs ==
    {[disable |-> TRUE, flags |-> {}],
     [disable |-> FALSE, flags |-> {}],
     [disable |-> FALSE, flags |-> {"logistics", "inference"}],
     [disable |-> FALSE, flags |-> {"sales", "inference"}],
     [disable |-> FALSE, flags |-> {"purchasing", "sales"}],
     [disable |-> FALSE, flags |-> {"bogus"}]}

\* AgentRegistry.register_agents(): _factories and _enabled
RegisterAgents(cfg) ==
    IF cfg.disable THEN [factories |-> {}, enabled |-> {}]
    ELSE [factories |-> AGENT_PATHS,
          enabled |-> IF cfg.flags # {} THEN cfg.flags \cap AGENT_PATHS
                      ELSE AGENT_PATHS]

NoModule == "None"
Unset == "unset"
RuntimeError == "RuntimeError"

\* str.lower() on one character
Lower(c) ==
    IF \E i \in 1..Len(UPPERCASE) : UPPERCASE[i] = c
    THEN LOWERCASE[CHOOSE i \in 1..Len(UPPERCASE) : UPPERCASE[i] = c]
    ELSE c

LowerStr(s) == [i \in 1..Len(s) |-> Lower(s[i])]

\* str.strip()
RECURSIVE LStrip(_)
LStrip(s) == IF s # <<>> /\ Head(s) = " " THEN LStrip(Tail(s)) ELSE s

RECURSIVE RStrip(_)
RStrip(s) ==
    IF s # <<>> /\ s[Len(s)] = " " THEN RStrip(SubSeq(s, 1, Len(s) - 1)) ELSE s

Strip(s) == RStrip(LStrip(s))

\* text.count(hint) from position i on: non-overlapping occurrences
RECURSIVE CountFrom(_, _, _)
CountFrom(text, hint, i) ==
    IF i + Len(hint) - 1 > Len(text) THEN 0
    ELSE IF text[i] = hint[1] /\ SubSeq(text, i, i + Len(hint) - 1) = hint
    THEN 1 + CountFrom(text, hint, i + Len(hint))
    ELSE CountFrom(text, hint, i + 1)

\* `sum(text.count(hint) for hint in hints if hint)`
RECURSIVE SumCounts(_, _, _)
SumCounts(text, hints, i) ==
    IF i > Len(hints) THEN 0
    ELSE CountFrom(text, hints[i], 1) + SumCounts(text, hints, i + 1)

\* the keyword score of every module on a prompt
KeywordScores(p) ==
    [m \in AGENT_PATHS |-> SumCounts(LowerStr(p), MODULE_HINTS[m], 1)]

\* max(scores.items(), key=count)[0]: the first entry, in insertion order,
\* among those with the greatest count
FirstMax(count, scored) ==
    HINT_ORDER[CHOOSE i \in scored :
                   \A j \in scored :
                       \/ count[HINT_ORDER[j]] < count[HINT_ORDER[i]]
                       \/ count[HINT_ORDER[j]] = count[HINT_ORDER[i]] /\ i <= j]

\* _infer_module(prompt), given the counts of its loop: only registered
\* modules enter `scores`
InferModule(p, available, count) ==
    IF Strip(LowerStr(p)) = <<>> THEN NoModule
    ELSE LET scored == {i \in 1..Len(HINT_ORDER) :
                           HINT_ORDER[i] \in available /\ count[HINT_ORDER[i]] > 0}
         IN IF scored = {} THEN NoModule ELSE FirstMax(count, scored)

\* _is_module_enabled(module)
IsModuleEnabled(m) ==
    IF enabled # {} THEN m \in enabled
    ELSE IF enabled_flags # {} THEN m \in enabled_flags
    ELSE m \in factories

\* position of a lower-case letter in the alphabet
Ord(c) == CHOOSE i \in 1..Len(LOWERCASE) : LOWERCASE[i] = c

\* Python's string order
RECURSIVE LexLess(_, _)
LexLess(a, b) ==
    IF a = <<>> THEN b # <<>>
    ELSE IF b = <<>> THEN FALSE
    ELSE IF a[1] = b[1] THEN LexLess(Tail(a), Tail(b))
    ELSE Ord(a[1]) < Ord(b[1])

\* sorted(S)[0]
SortedFirst_last(S) ==
    CHOOSE m \in S : \A n \in S \ {m} : LexLess(SPELLING[n], SPELLING[m])

SortedFirst(S) ==
    CHOOSE m \in S : \A n \in S \ {m} : LexLess(SPELLING[m], SPELLING[n])

\* _default_module()
DefaultModule ==
    IF enabled # {}
    THEN IF "inference" \in enabled THEN "inference" ELSE SortedFirst(enabled)
    ELSE IF factories # {}
    THEN IF "inference" \in factories THEN "inference" ELSE SortedFirst(factories)
    ELSE RuntimeError

\* `candidate = (requested_module or "").strip().lower()`
Candidate_raw(req) == req

Candidate(req) == LowerStr(Strip(req))

\* the registered modules the candidate names
Named(candidate) == {m \in factories : SPELLING[m] = candidate}

\* _resolve_module(requested_module, query_data), given what _infer_module
\* returns for the prompt
ResolveModule(req, inf) ==
    IF /\ Candidate(req) # <<>>
       /\ Named(Candidate(req)) # {}
       /\ \A m \in Named(Candidate(req)) : IsModuleEnabled(m)
    THEN CHOOSE m \in Named(Candidate(req)) : TRUE
    ELSE IF inf # NoModule /\ IsModuleEnabled(inf)
    THEN inf
    ELSE DefaultModule

\* the free text of a request: its words joined by single spaces
RECURSIVE Join(_)
Join(ws) ==
    IF ws = <<>> THEN <<>>
    ELSE IF Len(ws) = 1 THEN ws[1]
    ELSE ws[1] \o <<" ">> \o Join(Tail(ws))

FreeTexts == UNION {[1..n -> Vocabulary] : n \in 0..MaxWords}

ResolverInit ==
    \E cfg \in RegistryConfigs :
        /\ enabled_flags = cfg.flags
        /\ factories = RegisterAgents(cfg).factories
        /\ enabled = RegisterAgents(cfg).enabled
        /\ requested_module = <<>>
        /\ words = <<>>
        /\ scores = [m \in AGENT_PATHS |-> 0]
        /\ inferred = NoModule
        /\ resolved = Unset

ResolverIdle ==
    /\ enabled_flags = {}
    /\ factories = AGENT_PATHS
    /\ enabled = AGENT_PATHS
    /\ requested_module = <<>>
    /\ words = <<>>
    /\ scores = [m \in AGENT_PATHS |-> 0]
    /\ inferred = NoModule
    /\ resolved = Unset

\* route_query(module, {"input": text}) up to the resolved module
resolve(req, ws) ==
    /\ resolved = Unset
    /\ requested_module' = req
    /\ words' = ws
    /\ scores' = KeywordScores(Join(ws))
    /\ inferred' = InferModule(Join(ws), factories, scores')
    /\ resolved' = ResolveModule(req, inferred')
    /\ UNCHANGED <<enabled_flags, factories, enabled>>
    /\ UNCHANGED <<dvars, lvars, gvars, wvars>>

(***************************************************************************)
(* Part IV  Workflow execution (workflows/hierarchical_graph.py):          *)
(*          execute_workflow runs route_query once per step; route_query   *)
(*          resolves the module, checks it is enabled, runs the            *)
(*          guardrails, builds the typed input and calls the agent.        *)
(*                                                                         *)
(* A response is kept as: has it an "error" key, where the error comes     *)
(* from, and its "_module".  Beside the run itself the model carries the   *)
(* same run with agents that all return a dict (the twin), to compare      *)
(* the entries of the two.                                                 *)
(***************************************************************************)
MaxSteps == 3

\* what agent.execute(payload) does: return a dict without an "error" key,
\* raise an exception, or return something that is neither a dict nor an
\* AgentTaskOutput
Behaviours == {"returns", "raises", "bad_type"}

\* the explicit modules of the steps
StepModules == {<<>>, <<"s", "a", "l", "e", "s">>}

\* the inputs of the steps: none, blank, a logistics keyword
StepInputs ==
    {<<>>, << <<" ">> >>, << <<"s", "t", "o", "c", "k">> >>}

\* the freshness predicate answers of the steps
StepOutcomes == {"error", "timestamp"}

\* the levels of the logging module, lowest first; the level of the
\* module's logger comes from the logging configuration
LogLevels == <<"INFO", "WARNING", "ERROR", "CRITICAL">>

LevelRank(l) == CHOOSE i \in 1..Len(LogLevels) : LogLevels[i] = l

\* Logger.isEnabledFor(level)
IsEnabledFor(level) == LevelRank(level) >= LevelRank(log_level)

\* logger.info / warning / error / exception(..., extra={"module": ...}):
\* when the level is enabled Logger.makeRecord builds the record and raises
\* KeyError("Attempt to overwrite 'module' in LogRecord"), "module" being
\* an attribute of every LogRecord
LogRaises(level) == IsEnabledFor(level)

ErrorResponse(origin) == [error |-> TRUE, origin |-> origin, module |-> NoModule]

\* `response = dict(output.result)` ... `response.setdefault("_module", resolved_module)`
OkResponse(m) == [error |-> FALSE, origin |-> "agent", module |-> m]

\* AgentTaskInput.from_workflow: `prompt = str(payload.get("input") or "").strip()`,
\* `if not prompt: raise ValueError`
BlankPrompt(p) == Strip(p) = <<>>

\* _run_guardrails(module) over a given cache: the verdict and the cache
\* after; a module without guardrail entries passes
StepGuardrails(m, cache, t, fo) ==
    IF ~contracts_enabled \/ m \notin GModules THEN [ok |-> TRUE, cache |-> cache]
    ELSE LET f == FreshnessGuardrail(fresh_cfg, cache[m], t, fo)
         IN [ok |-> f.ok /\ (~f.ok \/ NullRateGuardrail(null_cfg, <<>>, 1).ok),
             cache |-> [cache EXCEPT ![m] = f.entry]]

\* lines 405-453: get_agent, agent.execute, the output type test, and what
\* the two except clauses return
CallAgent(m, beh) ==
    IF beh = "returns" THEN OkResponse(m)
    ELSE IF beh = "raises_silent" THEN ErrorResponse("agent_silent")
    ELSE ErrorResponse("agent")

\* a branch of route_query that logs at `level` with extra={"module": ...}
\* and then returns `response`: the log call raises, or the branch returns
LogThenReturn(level, response, events, cache) ==
    [raised |-> LogRaises(level),
     response |-> IF LogRaises(level) THEN ErrorResponse("KeyError") ELSE response,
     events |-> events, cache |-> cache]

\* route_query(module, payload) from the resolved module on: whether it
\* raised, the response, the checks it went through in order, and the cache
\* it leaves.  "Routing query" is logged at INFO first; a disabled module
\* and a guardrail failure are logged at WARNING, a blank prompt and an
\* agent failure at ERROR, each before the error response is returned.
RouteResolved(m, p, cache, t, fo, beh) ==
    IF LogRaises("INFO")
    THEN LogThenReturn("INFO", ErrorResponse("KeyError"), <<>>, cache)
    ELSE IF ~IsModuleEnabled(m)
    THEN LogThenReturn("WARNING", ErrorResponse("disabled"), <<"enabled">>, cache)
    ELSE IF ~StepGuardrails(m, cache, t, fo).ok
    THEN LogThenReturn("WARNING", ErrorResponse("guardrail"),
                       <<"enabled", "guardrails">>,
                       StepGuardrails(m, cache, t, fo).cache)
    ELSE IF BlankPrompt(p)
    THEN LogThenReturn("ERROR", ErrorResponse("input"),
                       <<"enabled", "guardrails", "input">>,
                       StepGuardrails(m, cache, t, fo).cache)
    ELSE IF beh # "returns"
    THEN LogThenReturn("ERROR", CallAgent(m, beh),
                       <<"enabled", "guardrails", "input", "agent">>,
                       StepGuardrails(m, cache, t, fo).cache)
    ELSE LogThenReturn("INFO", CallAgent(m, beh),
                       <<"enabled", "guardrails", "input", "agent">>,
                       StepGuardrails(m, cache, t, fo).cache)

\* `requested_module = (module or "").strip().lower()` and _resolve_module
RouteModule(req, p) ==
    ResolveModule(LowerStr(Strip(req)),
                  InferModule(p, factories, KeywordScores(p)))

\* ---------------------------------------------------------------- telemetry
\* the telemetry calls of one iteration, at most: step started, the agent
\* action, the agent failure, step failed
MaxEvents ==
    Len(<<"workflow_step_started", "agent_action", "agent_execution_failed",
          "workflow_step_failed">>)

\* the longest workflow run over a failing sink
MaxRunSteps == 2

\* _safe_execute(query, params) when `execute` would raise or not: is a row
\* written, does an exception leave the function
SafeExecute_unguarded(on, fails) ==
    [stored |-> on /\ ~fails, raised |-> on /\ fails]

SafeExecute(on, fails) ==
    [stored |-> on /\ ~fails, raised |-> FALSE]

\* `if workflow_run_id:`
Truthy(rid) == rid \notin {"None", ""}

\* the telemetry calls of route_query, in order, given what it did: none
\* when a log call raised or the module is disabled, else one event per
\* error branch, and log_agent_action once the agent was called
RouteEvents(r) ==
    IF r.raised \/ r.response.origin = "disabled" THEN <<>>
    ELSE IF r.response.origin = "guardrail" THEN <<"guardrail_failed">>
    ELSE IF r.response.origin = "input" THEN <<"invalid_payload">>
    ELSE IF r.response.error THEN <<"agent_action", "agent_execution_failed">>
    ELSE <<"agent_action">>

\* lines 513-520: the event before the step is routed
StartedEvents(rid) ==
    IF Truthy(rid) THEN <<"workflow_step_started">> ELSE <<>>

\* `has_error = isinstance(result, dict) and bool(result.get("error"))`
HasError(response) == response.error /\ response.origin # "agent_silent"

\* lines 533-546: the event after route_query returned
EndedEvents(rid, r) ==
    IF ~Truthy(rid) \/ r.raised THEN <<>>
    ELSE IF HasError(r.response) THEN <<"workflow_step_failed">>
    ELSE <<"workflow_step_completed">>

\* the telemetry calls of one iteration whose route_query did r
StepEvents(rid, r) == StartedEvents(rid) \o RouteEvents(r) \o EndedEvents(rid, r)

\* the calls of evs at which an exception leaves _safe_execute
Escapes(evs, sk) ==
    {k \in 1..Len(evs) : SafeExecute(observability_enabled, k \in sk).raised}

\* the calls made: all of evs, or those up to the first that raised
Made(evs, sk) ==
    IF Escapes(evs, sk) = {} THEN evs
    ELSE SubSeq(evs, 1, CHOOSE k \in Escapes(evs, sk) :
                            \A j \in Escapes(evs, sk) : k <= j)

\* the rows written by the calls made
Rows(evs, sk) ==
    Cardinality({k \in 1..Len(Made(evs, sk)) :
                    SafeExecute(observability_enabled, k \in sk).stored})

\* the calls of one iteration are made: each is kept with its iteration and
\* whether an exception left it
Emit(evs, sk) ==
    /\ emitted' = emitted \o
          [k \in 1..Len(Made(evs, sk)) |->
              [event |-> evs[k], step |-> Len(results),
               raised |-> SafeExecute(observability_enabled, k \in sk).raised]]
    /\ stored' = stored + Rows(evs, sk)

TelemetryIdle ==
    /\ workflow_run_id = "None"
    /\ observability_enabled = TRUE
    /\ emitted = <<>>
    /\ stored = 0

WorkflowIdle ==
    /\ wf_status = "idle"
    /\ wf_steps = 0
    /\ results = <<>>
    /\ journal = <<>>
    /\ twin_cache = [m \in GModules |-> NoEntry]
    /\ log_level = "WARNING"
    /\ TelemetryIdle

\* a workflow is about to run; the logger has one of the levels
WorkflowInit ==
    /\ wf_status = "idle"
    /\ wf_steps = 0
    /\ results = <<>>
    /\ journal = <<>>
    /\ twin_cache = [m \in GModules |-> NoEntry]
    /\ log_level \in {LogLevels[i] : i \in 1..Len(LogLevels)}
    /\ TelemetryIdle

\* the guardrail configuration workflows run under: contracts on or off, a
\* freshness entry with the default ttl, no null-rate entry
WorkflowGuardInit ==
    /\ contracts_enabled \in BOOLEAN
    /\ fresh_cfg = [present |-> TRUE, complete |-> TRUE, has_ttl |-> FALSE,
                    ttl_seconds |-> 0]
    /\ null_cfg = <<>>
    /\ now = 0
    /\ freshness_cache = [m \in GModules |-> NoEntry]
    /\ hist = <<>>

\* execute_workflow(workflow_steps) is called with n steps
execute_workflow(n, rid) ==
    /\ wf_status = "idle"
    /\ wf_steps' = n
    /\ workflow_run_id' = rid
    /\ wf_status' = IF n = 0 THEN "returned" ELSE "running"
    /\ UNCHANGED <<results, journal, twin_cache, log_level,
                   observability_enabled, emitted, stored>>
    /\ UNCHANGED <<dvars, lvars, gvars, rvars>>

\* the end of an iteration: `results.append({module: result})`, or the
\* exception of route_query leaving execute_workflow
StepEnd(req, p, fo, beh, m, r, twin, sk) ==
    /\ Emit(StepEvents(workflow_run_id, r), sk)
    /\ journal' = Append(journal,
                      [resolved |-> m, events |-> r.events, raised |-> r.raised,
                       blank |-> Strip(p) = <<>>,
                       guard |-> IF Len(r.events) < 2 THEN "not_run"
                                 ELSE IF StepGuardrails(m, freshness_cache, now, fo).ok
                                 THEN "ok" ELSE "failed",
                       agent |-> IF Len(r.events) = 4 THEN beh ELSE "not_called",
                       twin |-> twin.response, calm |-> r.response])
    /\ freshness_cache' = r.cache
    /\ twin_cache' = twin.cache
    /\ IF r.raised \/ Escapes(StepEvents(workflow_run_id, r), sk) # {}
       THEN /\ wf_status' = "raised"
            /\ UNCHANGED results
       ELSE /\ results' = Append(results, [module |-> req, result |-> r.response])
            /\ wf_status' = IF Len(results) + 1 = wf_steps
                            THEN "returned" ELSE "running"

\* route_query(module, payload) once the module is resolved to m
StepRoute(req, p, fo, beh, m, r, twin, sk) ==
    IF m = RuntimeError \/ Escapes(StartedEvents(workflow_run_id), sk) # {}
    THEN \* _default_module raises: nothing catches it
         /\ Emit(StartedEvents(workflow_run_id), sk)
         /\ wf_status' = "raised"
         /\ UNCHANGED <<results, journal, twin_cache, freshness_cache>>
    ELSE StepEnd(req, p, fo, beh, m, r, twin, sk)

\* what route_query does on the module m: nothing, _default_module having
\* raised, or RouteResolved
Routed(m, p, cache, fo, beh) ==
    IF m = RuntimeError
    THEN [raised |-> TRUE, response |-> ErrorResponse("RuntimeError"),
          events |-> <<>>, cache |-> cache]
    ELSE RouteResolved(m, p, cache, now, fo, beh)

\* one iteration of the loop of execute_workflow, lines 508-547, on a step
\* {"module": req, "input": ws}; the freshness predicate, if called, answers
\* fo, the agent, if called, behaves as beh, and `execute` raises in the
\* telemetry calls of one of the patterns of Sinks
workflow_step(req, ws, fo, beh, Sinks) ==
    /\ wf_status = "running"
    /\ \E m \in {RouteModule(req, Join(ws))} :
        \E r \in {Routed(m, Join(ws), freshness_cache, fo, beh)},
           twin \in {Routed(m, Join(ws), twin_cache, fo, "returns")} :
            \E sk \in Sinks : StepRoute(req, Join(ws), fo, beh, m, r, twin, sk)
    /\ UNCHANGED <<wf_steps, log_level, workflow_run_id, observability_enabled,
                   contracts_enabled, fresh_cfg, null_cfg, now, hist>>
    /\ UNCHANGED <<dvars, lvars, rvars>>

\* ------------------------------------------------------------ specification
Init == DispatcherInit /\ GuardIdle /\ ResolverIdle /\ WorkflowIdle

Next ==
    \/ start
    \/ \E t \in Tasks, r \in (-1)..MaxRetries, f \in Callables : submit(t, r, f)
    \/ \E t \in Tasks : submit_lock(t)
    \/ \E t \in Tasks : submit_put(t)
    \/ \E w \in WorkerIds : worker_get(w)
    \/ \E w \in WorkerIds : worker_lock(w)
    \/ \E w \in WorkerIds : worker_execute(w)
    \/ \E w \in WorkerIds : worker_put(w)

Spec == Init /\ [][Next]_vars

\* The event loop runs every coroutine that is ready: a worker that can take
\* a step takes it, and a coroutine waiting for the lock or for a queue slot
\* that keeps becoming free gets it (asyncio wakes waiters in FIFO order).
\* Without stop() the only workers are those of the first start().
Fairness ==
    /\ \A w \in {v \in WorkerIds : v < DefaultConcurrency} :
        /\ WF_vars(worker_get(w))
        /\ WF_vars(worker_execute(w))
        /\ SF_vars(worker_lock(w))
        /\ SF_vars(worker_put(w))
    /\ \A t \in Tasks :
        /\ SF_vars(submit_lock(t))
        /\ SF_vars(submit_put(t))

SpecFair == Init /\ [][Next]_vars /\ Fairness

\* the dispatcher over callables that may also raise CancelledError
NextCancel ==
    \/ Next
    \/ \E t \in Tasks, r \in (-1)..MaxRetries : submit(t, r, Cancelled)
    \/ \E w \in WorkerIds : worker_cancelled(w)

SpecCancel == Init /\ [][NextCancel]_vars

\* the dispatcher with its whole lifecycle: start(), stop() and restarts, over
\* tasks that are attempted once, as many as the default pool runs at a time
LifeTasks == {t \in Tasks : t <= DefaultConcurrency}

NextLife ==
    \/ start
    \/ \E s \in StopIds : stop(s)
    \/ \E s \in StopIds : stop_put(s)
    \/ \E s \in StopIds : stop_gather(s)
    \/ \E t \in LifeTasks, f \in {g \in Callables : g.n = 0} : submit(t, 0, f)
    \/ \E t \in LifeTasks : submit_put(t)
    \/ \E w \in WorkerIds : worker_begin(w)
    \/ \E w \in WorkerIds : worker_get(w)
    \/ \E w \in WorkerIds : worker_execute(w)

SpecLife == Init /\ [][NextLife]_vars

\* the dispatcher over queues with room for a retry behind a waiting task;
\* with these tasks no submit() finds the state lock held
InitFifo ==
    /\ DispatcherFresh
    /\ max_queue_size \in MaxQueueSize..(MaxQueueSize + 1)
    /\ GuardIdle /\ ResolverIdle /\ WorkflowIdle

NextFifo ==
    \/ start
    \/ \E t \in LifeTasks, r \in (-1)..MaxRetries, f \in Callables : submit(t, r, f)
    \/ \E t \in LifeTasks : submit_put(t)
    \/ \E w \in WorkerIds : worker_get(w)
    \/ \E w \in WorkerIds : worker_lock(w)
    \/ \E w \in WorkerIds : worker_execute(w)
    \/ \E w \in WorkerIds : worker_put(w)

SpecFifo == InitFifo /\ [][NextFifo]_vars

\* the same over callables that may also return an exception object
NextReturned ==
    \/ NextFifo
    \/ \E t \in LifeTasks, r \in (-1)..MaxRetries : submit(t, r, ReturnsException)

SpecReturned == InitFifo /\ [][NextReturned]_vars

\* the dispatcher with its whole lifecycle over one task that may be retried,
\* and queues with room for it behind a sentinel; with one task nobody finds
\* the state lock held
NextDrain ==
    \/ start
    \/ \E s \in StopIds : stop(s)
    \/ \E s \in StopIds : stop_put(s)
    \/ \E s \in StopIds : stop_gather(s)
    \/ \E r \in 0..MaxRetries, f \in Callables : submit(1, r, f)
    \/ submit_put(1)
    \/ \E w \in WorkerIds : worker_begin(w)
    \/ \E w \in WorkerIds : worker_get(w)
    \/ \E w \in WorkerIds : worker_execute(w)
    \/ \E w \in WorkerIds : worker_put(w)

SpecDrain == InitFifo /\ [][NextDrain]_vars

\* the guardrail engine alone
InitGuard == GuardInit /\ DispatcherIdle /\ ResolverIdle /\ WorkflowIdle

NextGuard ==
    \/ tick
    \/ \E m \in GModules, fo \in FreshnessOutcomes,
          nouts \in [1..Len(null_cfg) -> NullRateOutcomes] : check(m, fo, nouts)

SpecGuard == InitGuard /\ [][NextGuard]_vars

\* the null-rate guardrail as a function of its configuration and answers
InitNull == NullInit /\ DispatcherIdle /\ ResolverIdle /\ WorkflowIdle

NextNull ==
    \E m \in GModules, fo \in FreshnessOutcomes,
       nouts \in [1..Len(null_cfg) -> NullRateOutcomes] : check_once(m, fo, nouts)

SpecNull == InitNull /\ [][NextNull]_vars

\* the module resolver as a function of the registry and the request
InitResolve == ResolverInit /\ DispatcherIdle /\ GuardIdle /\ WorkflowIdle

NextResolve ==
    \E req \in RequestedModules, ws \in FreeTexts : resolve(req, ws)

SpecResolve == InitResolve /\ [][NextResolve]_vars

\* workflows over the registry and the guardrails
InitWorkflow ==
    /\ ResolverInit
    /\ enabled_flags \in {{}, {"logistics", "inference"}, {"bogus"}}
    /\ WorkflowGuardInit
    /\ DispatcherIdle
    /\ WorkflowInit

\* without a run id and with a sink that stores every row
NextWorkflow ==
    \/ \E n \in 0..MaxSteps : execute_workflow(n, "None")
    \/ \E req \in StepModules, ws \in StepInputs, fo \in StepOutcomes,
          beh \in Behaviours : workflow_step(req, ws, fo, beh, {{}})

SpecWorkflow == InitWorkflow /\ [][NextWorkflow]_vars

\* workflows with a run id, without one and with the empty one, over a sink
\* where `execute` may raise at any call of an iteration; the steps have no
\* input or a logistics keyword, and an agent may also raise an exception
\* without a message, whose response is {"error": ""}
InitTelemetry ==
    /\ ResolverInit
    /\ enabled_flags \in {{}, {"bogus"}}
    /\ WorkflowGuardInit
    /\ contracts_enabled
    /\ DispatcherIdle
    /\ wf_status = "idle"
    /\ wf_steps = 0
    /\ results = <<>>
    /\ journal = <<>>
    /\ twin_cache = [m \in GModules |-> NoEntry]
    /\ log_level \in {LogLevels[i] : i \in 1..Len(LogLevels)}
    /\ workflow_run_id = "None"
    /\ observability_enabled \in BOOLEAN
    /\ emitted = <<>>
    /\ stored = 0

NextTelemetry ==
    \/ \E n \in 0..MaxRunSteps, rid \in {"None", "", "run"} :
          execute_workflow(n, rid)
    \/ \E req \in StepModules,
          ws \in {i \in StepInputs : i = <<>> \/ ~BlankPrompt(Join(i))},
          fo \in StepOutcomes,
          beh \in {"returns", "raises", "raises_silent"} :
            workflow_step(req, ws, fo, beh, SUBSET (1..MaxEvents))

SpecTelemetry == InitTelemetry /\ [][NextTelemetry]_vars

\* ------------------------------------------------------------------ claims
Terminal == {"completed", "failed"}

\* C1: a task whose callable raises on every invocation is never completed,
\* is invoked and requeued no more often than its budget allows (at most
\* r + 1 invocations, at most r requeues), and when it reaches status failed
\* it has been invoked exactly r + 1 times and attempts = r + 1.
C1_PermanentFailureAttempts ==
    \A t \in DOMAIN states :
        subenv[t].func.always =>
            /\ states[t].status # "completed"
            /\ calls[t] <= states[t].max_retries + 1
            /\ requeues[t] <= states[t].max_retries
            /\ states[t].status = "failed" =>
                /\ calls[t] = states[t].max_retries + 1
                /\ states[t].attempts = states[t].max_retries + 1

C1_Witness ==
    \E t \in DOMAIN states :
        /\ subenv[t].func.always
        /\ states[t].max_retries = 2
        /\ states[t].status = "failed"
        /\ requeues[t] = 2

\* C2: a task whose callable raises on its first k - 1 invocations and returns
\* on invocation k, k <= r + 1, never becomes failed, and when it is completed
\* attempts = k and the stored result is the value invocation k returned.
C2_SucceedsOnAttemptK ==
    \A t \in DOMAIN states :
        LET k == subenv[t].func.n + 1
        IN (~subenv[t].func.always /\ k <= states[t].max_retries + 1) =>
            /\ states[t].status # "failed"
            /\ states[t].status = "completed" =>
                /\ states[t].attempts = k
                /\ calls[t] = k
                /\ states[t].result = k

C2_Witness ==
    \E t \in DOMAIN states :
        /\ ~subenv[t].func.always
        /\ subenv[t].func.n = 2
        /\ states[t].max_retries = 2
        /\ states[t].status = "completed"
        /\ states[t].attempts = 3

\* C3: once the workers are running, every task in the store eventually
\* reaches status completed or failed.
C3_EveryTaskTerminates ==
    \A t \in Tasks :
        (running /\ t \in DOMAIN states)
            ~> (t \in DOMAIN states /\ states[t].status \in Terminal)

\* C4: the queue never holds more than max_queue_size entries; a submit()
\* that found the queue full keeps its TaskState and its envelope and has
\* enqueued nothing, it stays suspended as long as the queue is full, and it
\* returns exactly when it appends its envelope, once, to a queue with a
\* free slot.
C4_SubmitBlocksWhenFull ==
    /\ [](Len(queue) <= max_queue_size)
    /\ [](\A t \in Tasks :
            /\ sub[t] = "put" =>
                 (submitPuts[t] = 0 /\ t \in DOMAIN states /\ subenv[t].task_id = t)
            /\ sub[t] = "returned" => submitPuts[t] = 1
            /\ submitPuts[t] <= 1)
    /\ [][\A t \in Tasks :
            /\ (sub[t] = "put" /\ Len(queue) >= max_queue_size) => sub'[t] = "put"
            /\ (sub[t] # "returned" /\ sub'[t] = "returned") =>
                 /\ Len(queue) < max_queue_size
                 /\ queue' = Append(queue, subenv'[t])
                 /\ submitPuts'[t] = submitPuts[t] + 1]_vars

C4_Witness ==
    /\ ~running
    /\ Len(queue) = max_queue_size
    /\ \E t \in Tasks : sub[t] = "put" /\ submitPuts[t] = 0

\* two _run_guardrails calls for the same module, the earlier one first
SameModuleCalls ==
    {p \in (1..Len(hist)) \X (1..Len(hist)) :
        p[1] < p[2] /\ hist[p[1]].module = hist[p[2]].module}

\* both guardrails are switched on and fully configured for the module
BothGuardrailsConfigured ==
    /\ contracts_enabled
    /\ fresh_cfg.present /\ fresh_cfg.complete
    /\ Len(null_cfg) = 1 /\ null_cfg[1].complete

\* C5: with both guardrails configured, two checks of one module less than
\* ttl_seconds apart invoke the freshness predicate at most once and the
\* null-rate predicate at most once between them; two checks more than
\* ttl_seconds apart, the first of which evaluated the freshness predicate,
\* invoke it at least twice.
C5_PredicatesCachedWithinTtl ==
    BothGuardrailsConfigured =>
        \A p \in SameModuleCalls :
            LET a == hist[p[1]]
                b == hist[p[2]]
            IN /\ b.at - a.at < TtlSeconds(fresh_cfg) =>
                    /\ a.fresh_calls + b.fresh_calls <= 1
                    /\ a.null_calls + b.null_calls <= 1
               /\ (b.at - a.at > TtlSeconds(fresh_cfg) /\ a.fresh_calls = 1) =>
                    a.fresh_calls + b.fresh_calls >= 2

\* C6: a freshness verdict answered from the cache equals the verdict of the
\* evaluation that created the cache entry (the latest earlier call for the
\* module that invoked the predicate).
C6_CachedVerdictMatchesEvaluation ==
    \A p \in SameModuleCalls :
        LET a == hist[p[1]]
            b == hist[p[2]]
        IN (/\ b.fresh_hit
            /\ a.fresh_calls = 1
            /\ \A k \in (p[1] + 1)..(p[2] - 1) :
                   hist[k].module = b.module => hist[k].fresh_calls = 0)
           => b.fresh_ok = a.fresh_ok

\* C7: whenever the null-rate guardrail runs, the check is Ok exactly when
\* every completely configured entry got a measured ratio that is at most its
\* max_null_rate; a ratio above it, a predicate error or a missing ratio
\* gives Failed.
C7_NullRateThreshold ==
    \A j \in 1..Len(hist) :
        hist[j].null_ran =>
            (hist[j].ok <=>
                \A i \in 1..Len(null_cfg) :
                    null_cfg[i].complete =>
                        /\ hist[j].null_outs[i].kind = "rate"
                        /\ hist[j].null_outs[i].rate <= null_cfg[i].max_null_rate)

C7_Witness ==
    /\ null_cfg = <<[complete |-> TRUE, max_null_rate |-> 2]>>
    /\ \E j \in 1..Len(hist) :
        /\ hist[j].null_ran
        /\ hist[j].null_outs[1] = [kind |-> "rate", rate |-> 3]
        /\ ~hist[j].ok

\* the modules a request can be routed to: registered and enabled
EnabledModules == {m \in factories : m \in enabled}

\* the registered module the request names once trimmed and lower-cased
ExplicitlyNamed ==
    {m \in factories : SPELLING[m] = LowerStr(Strip(requested_module))}

LogisticsKeywords ==
    {MODULE_HINTS["logistics"][i] : i \in 1..Len(MODULE_HINTS["logistics"])}

\* C8: for every free text, a request whose explicit module (after trimming
\* and lower-casing) is registered and enabled resolves to exactly that
\* module.
C8_ExplicitModuleWins ==
    resolved # Unset =>
        \A m \in ExplicitlyNamed \cap EnabledModules : resolved = m

\* a padded, capitalised "logistics" wins over a free text that scores for
\* the enabled sales module
C8_Witness ==
    /\ resolved = "logistics"
    /\ requested_module # SPELLING["logistics"]
    /\ ExplicitlyNamed = {"logistics"}
    /\ inferred = "sales"
    /\ "sales" \in EnabledModules

\* C9: with no explicit module, every free text built only from keywords of
\* the logistics keyword list resolves to logistics when logistics is
\* enabled, and to the default module when logistics is disabled.
C9_LogisticsKeywordsResolve ==
    (/\ resolved # Unset
     /\ requested_module = <<>>
     /\ words # <<>>
     /\ \A i \in 1..Len(words) : words[i] \in LogisticsKeywords)
    => IF "logistics" \in EnabledModules
       THEN resolved = "logistics"
       ELSE resolved = DefaultModule

\* C10: when the explicit module is empty, unknown or disabled, the resolver
\* returns the enabled module with the highest keyword score whenever at
\* least one enabled module scores above zero; the score of a disabled
\* module never changes the outcome.
C10_BestEnabledModuleWins ==
    (/\ resolved # Unset
     /\ ExplicitlyNamed \cap EnabledModules = {}
     /\ \E m \in EnabledModules : scores[m] > 0)
    => /\ resolved \in EnabledModules
       /\ \A m \in EnabledModules : scores[m] <= scores[resolved]

\* C11: when no keyword matches (and no enabled module is named), the
\* resolver returns "inference" if it is enabled, otherwise the
\* lexicographically first enabled module, otherwise (no module enabled) an
\* available module; with no module registered at all it raises an error
\* instead of returning a module.
C11_DefaultModuleFallback ==
    (/\ resolved # Unset
     /\ ExplicitlyNamed \cap EnabledModules = {}
     /\ \A m \in AGENT_PATHS : scores[m] = 0)
    => IF "inference" \in EnabledModules THEN resolved = "inference"
       ELSE IF EnabledModules # {}
       THEN /\ resolved \in EnabledModules
            /\ \A n \in EnabledModules \ {resolved} :
                   LexLess(SPELLING[resolved], SPELLING[n])
       ELSE IF factories # {} THEN resolved \in factories
       ELSE resolved = RuntimeError

\* a text without keywords, the general module disabled: the first enabled
\* module in string order answers
C11_Witness ==
    /\ resolved = "purchasing"
    /\ enabled = {"purchasing", "sales"}
    /\ words # <<>>
    /\ \A m \in AGENT_PATHS : scores[m] = 0

\* a step whose agent was called and did not return a dict
AgentFailed(i) == journal[i].agent \in {"raises", "bad_type"}

\* C12: execute_workflow over n steps returns exactly n result entries in
\* step order; when the agent of step i raises, entry i carries an error,
\* and every other entry equals the entry of the same run in which no agent
\* fails, so the other agents are still invoked.
C12_StepFailuresAreIsolated ==
    /\ Len(results) <= wf_steps
    /\ wf_status = "returned" => Len(results) = wf_steps
    /\ \A i \in 1..Len(journal) :
           AgentFailed(i) => i <= Len(results) /\ results[i].result.error
    /\ \A i \in 1..Len(results) :
           ~AgentFailed(i) => results[i].result = journal[i].twin

\* the checks of route_query in the order the claim names them
CheckOrder == <<"enabled", "guardrails", "input", "agent">>

\* C13: within one step (that got as far as its first check) the agent is
\* invoked only after, in this order, the
\* resolved module was found enabled, the guardrails returned Ok and the
\* prompt was found non-blank; when one of these fails the step returns a
\* response with an error, nothing is raised, and neither the agent nor the
\* later checks run.
C13_ChecksPrecedeAgent ==
    \A i \in 1..Len(journal) :
        LET j == journal[i]
            on == IF enabled # {} THEN j.resolved \in enabled
                  ELSE IF enabled_flags # {} THEN j.resolved \in enabled_flags
                  ELSE j.resolved \in factories
        IN Len(j.events) >= 1 =>
           /\ j.events = SubSeq(CheckOrder, 1, Len(j.events))
           /\ IF ~on THEN Len(j.events) = 1 /\ j.guard = "not_run"
              ELSE IF j.guard # "ok" THEN Len(j.events) = 2 /\ j.guard = "failed"
              ELSE IF j.blank THEN Len(j.events) = 3
              ELSE Len(j.events) = 4
           /\ IF Len(j.events) = 4
              THEN j.agent # "not_called"
              ELSE /\ j.agent = "not_called"
                   /\ ~j.raised
                   /\ results[i].result.error
                   /\ results[i].result.origin # "agent"

\* the worker tasks that are not done
Live == {w \in WorkerIds : wpc[w] \notin {"none", "exited", "cancelled"}}

\* no stop() call is between its first line and its return
NoStopInProgress == \A s \in StopIds : stp[s] \in {"idle", "returned"}

\* C14: over any sequence of stop() calls, overlapping ones included, one
\* sentinel per worker is enqueued in total (never more sentinels than worker
\* tasks were created, and as many once the dispatcher is stopped and every
\* stop() has returned), no sentinel is left in the queue once the stop()
\* calls have returned, and a dispatcher that is running with no stop() in
\* progress has `concurrency` live workers.
C14_StopIsIdempotent ==
    /\ sentinels <= Cardinality(Spawned)
    /\ (NoStopInProgress /\ ~running) =>
           /\ sentinels = Cardinality(Spawned)
           /\ \A i \in 1..Len(queue) : queue[i] # Sentinel
    /\ (NoStopInProgress /\ running) => Cardinality(Live) = concurrency

\* C15: stop() cancels no attempt and returns only after the workers it
\* awaited have exited: while the dispatcher is stopped no task has status
\* running and every attempt counted has run its callable, and once a stop()
\* has returned every task queued ahead of its first sentinel has been
\* dequeued and attempted.
C15_StopWaitsForWorkers ==
    /\ ~running =>
           \A t \in DOMAIN states :
               /\ states[t].status # "running"
               /\ states[t].attempts = calls[t]
    /\ \A s \in StopIds :
           stp[s] = "returned" =>
               /\ \A w \in stpg[s] : wpc[w] = "exited"
               /\ \A t \in stq[s] :
                      /\ calls[t] >= 1
                      /\ \A i \in 1..Len(queue) : queue[i].task_id # t

\* C16: a submit() call made while the dispatcher is stopped (after a
\* completed stop(), before the next start()) adds no TaskState to the store
\* and no envelope to the queue.
C16_NoWorkAcceptedWhenStopped ==
    \A t \in late :
        /\ t \notin DOMAIN states
        /\ submitPuts[t] = 0
        /\ \A i \in 1..Len(queue) : queue[i].task_id # t

\* C17: concurrency is at least 1; a running dispatcher lists exactly
\* `concurrency` worker tasks, however often start() is called, and a stopped
\* one lists none or those of a stop() still in progress; in every reachable
\* state at most `concurrency` worker tasks are alive.
C17_StartIsIdempotent ==
    /\ concurrency >= 1
    /\ running => Len(workers) = concurrency
    /\ Len(workers) \in {0, concurrency}
    /\ Cardinality(Live) <= concurrency

\* C18: with no stop() call made, every worker task created is alive
\* whatever the callables raised, and a task in status running is in the
\* hands of a live worker, which will record its outcome.
C18_FailureNeverEndsWorker ==
    /\ Live = Spawned
    /\ \A t \in DOMAIN states :
           states[t].status = "running" => \E w \in Live : wenv[w].task_id = t

\* the workers that have an envelope in their hands, and where task t is
Holds(w) == wpc[w] \in {"lock1", "exec", "lock2", "put"}

Holding == {w \in WorkerIds : Holds(w)}

Holders(t) == {w \in Holding : wenv[w].task_id = t}

InQueue(t) == {i \in 1..Len(queue) : queue[i].task_id = t}

\* C19: each task is held by at most one worker and a worker that holds
\* nothing has no envelope; a task is never both in the queue and in a
\* worker's hands, nor twice in the queue; and every attempt counted in the
\* TaskState belongs to one dequeue by one worker: attempts exceeds the
\* invocations made by one exactly while that worker is about to invoke.
C19_OneWorkerPerTask ==
    /\ \A w \in WorkerIds :
           IF Holds(w)
           THEN /\ wenv[w].task_id \in DOMAIN states
                /\ \A v \in WorkerIds :
                       (v # w /\ Holds(v)) => wenv[v].task_id # wenv[w].task_id
                /\ \A i \in 1..Len(queue) : queue[i].task_id # wenv[w].task_id
           ELSE wenv[w] = Sentinel
    /\ \A i, j \in 1..Len(queue) : queue[i].task_id = queue[j].task_id => i = j
    /\ \A t \in DOMAIN states :
           /\ states[t].attempts =
                  IF \E w \in WorkerIds : wpc[w] = "exec" /\ wenv[w].task_id = t
                  THEN calls[t] + 1 ELSE calls[t]
           /\ states[t].status = "running" <=>
                  \E w \in WorkerIds :
                      wpc[w] \in {"exec", "lock2"} /\ wenv[w].task_id = t

C19_Witness ==
    \E w1, w2 \in Holding, t \in DOMAIN states :
        /\ w1 # w2
        /\ wpc[w1] = "exec" /\ wpc[w2] = "exec"
        /\ states[wenv[w1].task_id].attempts = 2
        /\ InQueue(t) # {}

\* a worker has dequeued the retry of t and has not yet finished the attempt
RetryTaken(t) ==
    /\ calls[t] >= 1
    /\ \E w \in Holders(t) : wpc[w] \in {"lock1", "exec"}

C21_ConfigurationErrorNotRetried ==
    \A t \in DOMAIN states :
        subenv[t].func = ConfigurationError =>
            /\ calls[t] <= 1
            /\ requeues[t] = 0
            /\ states[t].status # "retrying"
\* C22: whatever calls of the telemetry sink fail, no exception leaves a
\* telemetry call, every step response kept is the one the same step gives
\* over a sink that never fails, and execute_workflow ends by an exception
\* only where route_query raised.
C22_SinkFailuresNeverAbort ==
    /\ \A k \in 1..Len(emitted) : ~emitted[k].raised
    /\ \A i \in 1..Len(results) : results[i].result = journal[i].calm
    /\ wf_status = "returned" => Len(results) = wf_steps
    /\ wf_status = "raised" =>
          \/ Len(journal) = Len(results) + 1 /\ journal[Len(journal)].raised
          \/ Len(journal) = Len(results) /\ factories = {}

\* a workflow with a run id returned all its steps, an agent was called, and
\* the sink stored fewer rows than the calls made
C22_Witness ==
    /\ wf_status = "returned"
    /\ wf_steps >= 2
    /\ observability_enabled
    /\ Truthy(workflow_run_id)
    /\ stored < Len(emitted)
    /\ \E i \in 1..Len(journal) : journal[i].agent = "returns"
    /\ \E i \in 1..Len(journal) : journal[i].agent = "raises"

\* C26: with a run id, every step that emitted workflow_step_started has
\* exactly one workflow_step_completed or workflow_step_failed after it,
\* failed exactly when its response has a non-empty error, and the events of
\* a step come before those of the next.
StepEnds(i) ==
    {k \in 1..Len(emitted) :
        /\ emitted[k].step = i
        /\ emitted[k].event \in {"workflow_step_completed", "workflow_step_failed"}}

C26_StepEventsBracketEachStep ==
    Truthy(workflow_run_id) =>
        /\ \A k \in 1..Len(emitted) :
              emitted[k].event = "workflow_step_started" =>
                 \E j \in StepEnds(emitted[k].step) :
                    /\ j > k
                    /\ StepEnds(emitted[k].step) = {j}
                    /\ emitted[j].event = "workflow_step_failed"
                          <=> HasError(journal[emitted[k].step + 1].calm)
        /\ \A k \in 1..Len(emitted), j \in 1..Len(emitted) :
              k < j => emitted[k].step <= emitted[j].step
\* C23: every status is one of the five lifecycle values, attempts is 0
\* exactly while the status is queued and never exceeds max_retries + 1, and
\* in every step attempts does not decrease and a status changes only along
\* queued -> running, running -> completed, failed or retrying, and
\* retrying -> running.
Statuses == {"queued", "running", "retrying", "completed", "failed"}

Transitions ==
    {<<"queued", "running">>, <<"running", "completed">>,
     <<"running", "failed">>, <<"running", "retrying">>,
     <<"retrying", "running">>}

StatusesAndAttempts ==
    \A t \in DOMAIN states :
        /\ states[t].status \in Statuses
        /\ states[t].attempts = 0 <=> states[t].status = "queued"
        /\ states[t].attempts <= states[t].max_retries + 1

StatusStep ==
    \A t \in DOMAIN states :
        /\ t \in DOMAIN states'
        /\ states'[t].attempts >= states[t].attempts
        /\ states'[t].status # states[t].status =>
              <<states[t].status, states'[t].status>> \in Transitions

C23_StatusMachine == []StatusesAndAttempts /\ [][StatusStep]_vars

\* one task was completed on its second attempt and another failed after
\* its last retry
C23_Witness ==
    \E t, u \in DOMAIN states :
        /\ states[t].status = "completed" /\ states[t].attempts = 2
        /\ states[u].status = "failed" /\ states[u].attempts = 2
        /\ requeues[t] = 1 /\ requeues[u] = 1
\* C24: every state result() can return (the state lock is free) with
\* status queued, running or retrying has finished_at unset and no error.
C24_UnfinishedHasNoStampNoError ==
    state_lock = NoHolder =>
        \A t \in DOMAIN states :
            states[t].status \in {"queued", "running", "retrying"} =>
                /\ ~states[t].finished_at
                /\ states[t].error = None

\* C25: in every state result() can return, a completed task has a result
\* and no error, and a failed task has an error and no result.
C25_ResultXorError ==
    state_lock = NoHolder =>
        \A t \in DOMAIN states :
            /\ states[t].status = "completed" =>
                  states[t].result # None /\ states[t].error = None
            /\ states[t].status = "failed" =>
                  states[t].error # None /\ states[t].result = None
\* C27: no worker holds the state lock while it is suspended in queue.put()
\* waiting for a free slot, so result() and submit() never wait for the
\* lock behind a full queue.
C27_NoLockHeldAcrossPut ==
    \A w \in WorkerIds : ~(wpc[w] = "put" /\ state_lock = w /\ ~CanPut(queue))
\* C28: once stop() has returned and no worker is left, every task that was
\* attempted is completed or failed.
C28_StopLeavesNoTaskBehind ==
    (Stopped /\ NoStopInProgress /\ Live = {}) =>
        \A t \in DOMAIN states :
            states[t].attempts >= 1 => states[t].status \in Terminal
\* C29: a task whose callable never raises is invoked once, is never
\* requeued, never retrying or failed, and once its outcome is recorded it is
\* completed with the returned value as result, whatever the value is.
C29_ReturnMeansCompleted ==
    \A t \in DOMAIN states :
        (~subenv[t].func.always /\ subenv[t].func.n <= 0) =>
            /\ calls[t] <= 1
            /\ requeues[t] = 0
            /\ states[t].status \notin {"retrying", "failed"}
            /\ states[t].finished_at =>
                  states[t].status = "completed" /\ states[t].result = 1
\* C30: for a task submitted as run_workflow_async submits it (retries = 1),
\* once the run's status was set to failed or completed with the completed
\* marker, no later update sets it to running: the body runs at most once.
C30_WorkflowBodyRunsOnce ==
    \A t \in DOMAIN states :
        states[t].max_retries = 1 =>
            \A j, k \in 1..(2 * calls[t]) :
                (/\ j < k
                 /\ RunStatus(subenv[t].func, calls[t])[j].completed) =>
                    RunStatus(subenv[t].func, calls[t])[k].status # "running"
====
